---- MODULE Spec2Model ----
(***************************************************************************)
(* Model of osm-parse (src/src/main.rs): format dispatch on the path,      *)
(* the event loop over the XML reader, the tag classifier/accumulator and  *)
(* the final report.  Names and paths are byte sequences (0..255).         *)
(***************************************************************************)
EXTENDS Integers, Sequences, FiniteSets, TLC

VARIABLES
    pc,          \* position in main(): start, open, reading, report, unsupported, done, aborted
    path,        \* options.file as bytes
    fileExists,  \* environment: whether File::open will succeed
    fileFormat,  \* result of FileFormats::try_from: "none" before the call, then XML / BZIP2 / Err
    opened,      \* input_file has been opened
    allocated,   \* info / others have been constructed (main.rs:104-105)
    info,        \* HashMap<OsmTag, TagInfo>
    others,      \* HashSet<String>
    event,       \* the event last returned by read_event_into
    stdout,      \* lines printed so far
    panicked,    \* "none", or the call whose expect/unwrap panicked
    nEvents,     \* number of Start/Empty/End/other events read so far
    stack,       \* history: names of the elements currently open
    wellFormed,  \* history: the events delivered so far are properly nested
    cntStart,    \* history: Start events per kind
    cntEmpty,    \* history: Empty events per kind
    cntEnd,      \* history: End events per kind
    otherSeen    \* history: raw names of Start/Empty/End events that are no kind

vars == <<pc, path, fileExists, fileFormat, opened, allocated, info, others,
          event, stdout, panicked, nEvents, stack, wellFormed,
          cntStart, cntEmpty, cntEnd, otherSeen>>

\* Bound on the number of non-terminal events one run reads.
MaxEvents == 4

OsmTag == {"Node", "Way", "Relation"}

----------------------------------------------------------------------------
\* Byte-level helpers (core library functions the program calls)

\* u8::to_ascii_lowercase
ToAsciiLower(b) == IF b >= 65 /\ b <= 90 THEN b + 32 ELSE b

\* <[u8]>::eq_ignore_ascii_case
EqIgnoreAsciiCaseNoLen(a, b) ==
    \A i \in 1..(IF Len(a) < Len(b) THEN Len(a) ELSE Len(b)) :
        ToAsciiLower(a[i]) = ToAsciiLower(b[i])

EqIgnoreAsciiCase(a, b) ==
    /\ Len(a) = Len(b)
    /\ \A i \in 1..Len(a) : ToAsciiLower(a[i]) = ToAsciiLower(b[i])

\* str::ends_with on bytes
EndsWith(s, suffix) ==
    /\ Len(s) >= Len(suffix)
    /\ SubSeq(s, Len(s) - Len(suffix) + 1, Len(s)) = suffix

\* UTF-8: number of bytes the lead byte announces (0: not a lead byte)
Utf8Width(b) ==
    IF b < 128 THEN 1
    ELSE IF b >= 194 /\ b <= 223 THEN 2
    ELSE IF b >= 224 /\ b <= 239 THEN 3
    ELSE IF b >= 240 /\ b <= 244 THEN 4
    ELSE 0

\* UTF-8: the range allowed for the byte after lead byte b
Utf8SecondOk(b, c) ==
    IF b = 224 THEN c >= 160 /\ c <= 191
    ELSE IF b = 237 THEN c >= 128 /\ c <= 159
    ELSE IF b = 240 THEN c >= 144 /\ c <= 191
    ELSE IF b = 244 THEN c >= 128 /\ c <= 143
    ELSE c >= 128 /\ c <= 191

Utf8Cont(c) == c >= 128 /\ c <= 191

\* The chunk starting at s[i]: a valid character (ok) of len bytes, or a
\* maximal invalid prefix of len bytes.
Utf8Chunk(s, i) ==
    LET w == Utf8Width(s[i]) IN
    IF w = 0 THEN [ok |-> FALSE, len |-> 1]
    ELSE IF w = 1 THEN [ok |-> TRUE, len |-> 1]
    ELSE IF i + 1 > Len(s) \/ ~Utf8SecondOk(s[i], s[i + 1]) THEN [ok |-> FALSE, len |-> 1]
    ELSE IF w = 2 THEN [ok |-> TRUE, len |-> 2]
    ELSE IF i + 2 > Len(s) \/ ~Utf8Cont(s[i + 2]) THEN [ok |-> FALSE, len |-> 2]
    ELSE IF w = 3 THEN [ok |-> TRUE, len |-> 3]
    ELSE IF i + 3 > Len(s) \/ ~Utf8Cont(s[i + 3]) THEN [ok |-> FALSE, len |-> 3]
    ELSE [ok |-> TRUE, len |-> 4]

RECURSIVE IsUtf8From(_, _)
IsUtf8From(s, i) ==
    IF i > Len(s) THEN TRUE
    ELSE LET c == Utf8Chunk(s, i) IN c.ok /\ IsUtf8From(s, i + c.len)

\* OsStr::to_str succeeds
IsUtf8(s) == IsUtf8From(s, 1)

RECURSIVE LossyFrom(_, _)
LossyFrom(s, i) ==
    IF i > Len(s) THEN <<>>
    ELSE LET c == Utf8Chunk(s, i) IN
         (IF c.ok THEN SubSeq(s, i, i + c.len - 1) ELSE <<239, 191, 189>>)
            \o LossyFrom(s, i + c.len)

\* String::from_utf8_lossy(tag).to_string(): invalid parts become U+FFFD
FromUtf8Lossy(s) == LossyFrom(s, 1)

----------------------------------------------------------------------------
\* impl TryFrom<&[u8]> for OsmTag; "Err" stands for Err(false)

OsmTagTryFrom(value) ==
    IF EqIgnoreAsciiCase(value, <<110, 111, 100, 101>>) THEN "Node"                         \* b"node"
    ELSE IF EqIgnoreAsciiCase(value, <<119, 97, 121>>) THEN "Way"                           \* b"way"
    ELSE IF EqIgnoreAsciiCase(value, <<114, 101, 108, 97, 116, 105, 111, 110>>) THEN "Relation" \* b"relation"
    ELSE "Err"

\* impl TryFrom<&OsStr> for FileFormats; "Err" stands for Err(false)

FileFormatsTryFromXmlFirst(os_str) ==
    IF IsUtf8(os_str)
    THEN IF EndsWith(os_str, <<111, 115, 109>>) THEN "XML"
         ELSE IF EndsWith(os_str, <<98, 122, 50>>) THEN "BZIP2"
         ELSE "Err"
    ELSE "Err"

FileFormatsTryFrom(os_str) ==
    IF IsUtf8(os_str)
    THEN IF EndsWith(os_str, <<111, 115, 109, 46, 98, 122, 50>>) THEN "BZIP2"   \* "osm.bz2"
         ELSE IF EndsWith(os_str, <<111, 115, 109>>) THEN "XML"                 \* "osm"
         ELSE "Err"
    ELSE "Err"

----------------------------------------------------------------------------
\* The accumulators

\* TagInfo::default()
TagInfoDefault == [starts |-> 0, ends |-> 0]

\* info.entry(tag).or_default()
EntryOrDefault(inf, tag) ==
    [k \in DOMAIN inf \cup {tag} |-> IF k \in DOMAIN inf THEN inf[k] ELSE TagInfoDefault]

\* the closure register_tag, on the pair (info, others) it captures
RegisterTagAlwaysStarts(add, tag, acc) ==
    LET osm_tag == OsmTagTryFrom(tag) IN
    IF osm_tag # "Err"
    THEN LET withEntry == EntryOrDefault(acc.info, osm_tag) IN
         [info   |-> [withEntry EXCEPT ![osm_tag].starts = @ + 1],
          others |-> acc.others]
    ELSE [info |-> acc.info, others |-> acc.others \cup {FromUtf8Lossy(tag)}]

RegisterTagCountsOthers(add, tag, acc) ==
    LET osm_tag == OsmTagTryFrom(tag)
        key == IF osm_tag = "Err" THEN "Node" ELSE osm_tag
        withEntry == EntryOrDefault(acc.info, key) IN
    [info   |-> IF add THEN [withEntry EXCEPT ![key].starts = @ + 1]
                       ELSE [withEntry EXCEPT ![key].ends = @ + 1],
     others |-> IF osm_tag = "Err" THEN acc.others \cup {FromUtf8Lossy(tag)} ELSE acc.others]

RegisterTagResets(add, tag, acc) ==
    LET osm_tag == OsmTagTryFrom(tag) IN
    IF osm_tag # "Err"
    THEN [info   |-> (osm_tag :> (IF add THEN [starts |-> 1, ends |-> 0]
                                         ELSE [starts |-> 0, ends |-> 1])),
          others |-> acc.others]
    ELSE [info |-> acc.info, others |-> acc.others \cup {FromUtf8Lossy(tag)}]

RegisterTag(add, tag, acc) ==
    LET osm_tag == OsmTagTryFrom(tag) IN
    IF osm_tag # "Err"
    THEN LET withEntry == EntryOrDefault(acc.info, osm_tag) IN
         [info   |-> IF add THEN [withEntry EXCEPT ![osm_tag].starts = @ + 1]
                            ELSE [withEntry EXCEPT ![osm_tag].ends = @ + 1],
          others |-> acc.others]
    ELSE [info |-> acc.info, others |-> acc.others \cup {FromUtf8Lossy(tag)}]

\* {:?} of the HashMap: one item per entry present, in no particular order
DebugInfo(inf) ==
    {[tag |-> k, starts |-> inf[k].starts, ends |-> inf[k].ends] : k \in DOMAIN inf}

\* the two println! texts
DoneLine(inf, oth) == [text |-> "... and done!", info |-> DebugInfo(inf), others |-> oth]

UnsupportedLine ==
    [text |-> "Only files with extension .osm or .osm.bz2 are supported.",
     info |-> {}, others |-> {}]

----------------------------------------------------------------------------
\* Inputs of the program run

\* "map.osm", "map.osm.bz2", "map.txt"
Paths == { <<109, 97, 112, 46, 111, 115, 109>>,
           <<109, 97, 112, 46, 111, 115, 109, 46, 98, 122, 50>>,
           <<109, 97, 112, 46, 116, 120, 116>> }

\* local names the reader delivers: "node", "Node", "way", "relation", "foo", "n\xFF"
Names == { <<110, 111, 100, 101>>,
           <<78, 111, 100, 101>>,
           <<119, 97, 121>>,
           <<114, 101, 108, 97, 116, 105, 111, 110>>,
           <<102, 111, 111>>,
           <<110, 255>> }

\* n is lit with some of its ASCII letters in the other case (lit is lower case)
IsCaseVariant(n, lit) ==
    /\ Len(n) = Len(lit)
    /\ \A i \in 1..Len(lit) : n[i] \in {lit[i], lit[i] - 32}

\* the kind a name denotes, "Other" if none (used by the history only)
KindOfName(n) ==
    IF IsCaseVariant(n, <<110, 111, 100, 101>>) THEN "Node"
    ELSE IF IsCaseVariant(n, <<119, 97, 121>>) THEN "Way"
    ELSE IF IsCaseVariant(n, <<114, 101, 108, 97, 116, 105, 111, 110>>) THEN "Relation"
    ELSE "Other"

NoEvent == [type |-> "None", name |-> <<>>]

Init ==
    /\ pc = "start"
    /\ path \in Paths
    /\ fileExists \in BOOLEAN
    /\ fileFormat = "none"
    /\ opened = FALSE
    /\ allocated = FALSE
    /\ info = <<>>
    /\ others = {}
    /\ event = NoEvent
    /\ stdout = <<>>
    /\ panicked = "none"
    /\ nEvents = 0
    /\ stack = <<>>
    /\ wellFormed = TRUE
    /\ cntStart = [k \in OsmTag |-> 0]
    /\ cntEmpty = [k \in OsmTag |-> 0]
    /\ cntEnd = [k \in OsmTag |-> 0]
    /\ otherSeen = {}

histVars == <<stack, wellFormed, cntStart, cntEmpty, cntEnd, otherSeen>>
accVars == <<allocated, info, others>>

----------------------------------------------------------------------------
\* main()

\* main.rs:87  FileFormats::try_from(options.file.as_os_str())
ResolveFormat ==
    /\ pc = "start"
    /\ fileFormat' = FileFormatsTryFrom(path)
    /\ pc' = IF fileFormat' = "Err" THEN "unsupported" ELSE "open"
    /\ UNCHANGED <<path, fileExists, opened, accVars, event, stdout, panicked, nEvents, histVars>>

\* main.rs:88-105  File::open(..).expect(..), the reader, the accumulators
OpenFileEarly ==
    /\ pc \in {"open", "unsupported"}
    /\ ~opened
    /\ panicked = "none"
    /\ IF fileExists
       THEN /\ opened' = TRUE
            /\ allocated' = TRUE
            /\ info' = <<>>
            /\ others' = {}
            /\ pc' = IF pc = "open" THEN "reading" ELSE pc
            /\ UNCHANGED panicked
       ELSE /\ panicked' = "Open XML file"
            /\ pc' = "aborted"
            /\ UNCHANGED <<opened, accVars>>
    /\ UNCHANGED <<path, fileExists, fileFormat, event, stdout, nEvents, histVars>>

OpenFile ==
    /\ pc = "open"
    /\ IF fileExists
       THEN /\ opened' = TRUE
            /\ allocated' = TRUE
            /\ info' = <<>>
            /\ others' = {}
            /\ pc' = "reading"
            /\ UNCHANGED panicked
       ELSE /\ panicked' = "Open XML file"
            /\ pc' = "aborted"
            /\ UNCHANGED <<opened, accVars>>
    /\ UNCHANGED <<path, fileExists, fileFormat, event, stdout, nEvents, histVars>>

\* history bookkeeping of the events delivered
Push(name) == stack' = IF wellFormed THEN Append(stack, name) ELSE <<>>

Bump(cnt, name) ==
    IF KindOfName(name) = "Other" THEN cnt ELSE [cnt EXCEPT ![KindOfName(name)] = @ + 1]

NoteOther(name) ==
    otherSeen' = IF KindOfName(name) = "Other" THEN otherSeen \cup {name} ELSE otherSeen

\* main.rs:131-133  Event::Start
ReadStart ==
    /\ pc = "reading"
    /\ nEvents < MaxEvents
    /\ \E name \in Names :
        LET acc == RegisterTag(TRUE, name, [info |-> info, others |-> others]) IN
        /\ event' = [type |-> "Start", name |-> name]
        /\ info' = acc.info
        /\ others' = acc.others
        /\ Push(name)
        /\ cntStart' = Bump(cntStart, name)
        /\ NoteOther(name)
    /\ nEvents' = nEvents + 1
    /\ UNCHANGED <<pc, path, fileExists, fileFormat, opened, allocated, stdout, panicked,
                   wellFormed, cntEmpty, cntEnd>>

\* main.rs:135-138  Event::Empty
ReadEmptyStartOnly ==
    /\ pc = "reading"
    /\ nEvents < MaxEvents
    /\ \E name \in Names :
        LET acc == RegisterTag(TRUE, name, [info |-> info, others |-> others]) IN
        /\ event' = [type |-> "Empty", name |-> name]
        /\ info' = acc.info
        /\ others' = acc.others
        /\ cntEmpty' = Bump(cntEmpty, name)
        /\ NoteOther(name)
    /\ nEvents' = nEvents + 1
    /\ UNCHANGED <<pc, path, fileExists, fileFormat, opened, allocated, stdout, panicked,
                   stack, wellFormed, cntStart, cntEnd>>

ReadEmpty ==
    /\ pc = "reading"
    /\ nEvents < MaxEvents
    /\ \E name \in Names :
        LET acc1 == RegisterTag(TRUE, name, [info |-> info, others |-> others])
            acc2 == RegisterTag(FALSE, name, acc1) IN
        /\ event' = [type |-> "Empty", name |-> name]
        /\ info' = acc2.info
        /\ others' = acc2.others
        /\ cntEmpty' = Bump(cntEmpty, name)
        /\ NoteOther(name)
    /\ nEvents' = nEvents + 1
    /\ UNCHANGED <<pc, path, fileExists, fileFormat, opened, allocated, stdout, panicked,
                   stack, wellFormed, cntStart, cntEnd>>

\* main.rs:140-142  Event::End
ReadEndAsStart ==
    /\ pc = "reading"
    /\ nEvents < MaxEvents
    /\ \E name \in Names :
        LET acc == RegisterTag(TRUE, name, [info |-> info, others |-> others])
            closes == wellFormed /\ stack # <<>> /\ stack[Len(stack)] = name IN
        /\ event' = [type |-> "End", name |-> name]
        /\ info' = acc.info
        /\ others' = acc.others
        /\ wellFormed' = closes
        /\ stack' = IF closes THEN SubSeq(stack, 1, Len(stack) - 1) ELSE <<>>
        /\ cntEnd' = Bump(cntEnd, name)
        /\ NoteOther(name)
    /\ nEvents' = nEvents + 1
    /\ UNCHANGED <<pc, path, fileExists, fileFormat, opened, allocated, stdout, panicked,
                   cntStart, cntEmpty>>

ReadEnd ==
    /\ pc = "reading"
    /\ nEvents < MaxEvents
    /\ \E name \in Names :
        LET acc == RegisterTag(FALSE, name, [info |-> info, others |-> others])
            closes == wellFormed /\ stack # <<>> /\ stack[Len(stack)] = name IN
        /\ event' = [type |-> "End", name |-> name]
        /\ info' = acc.info
        /\ others' = acc.others
        /\ wellFormed' = closes
        /\ stack' = IF closes THEN SubSeq(stack, 1, Len(stack) - 1) ELSE <<>>
        /\ cntEnd' = Bump(cntEnd, name)
        /\ NoteOther(name)
    /\ nEvents' = nEvents + 1
    /\ UNCHANGED <<pc, path, fileExists, fileFormat, opened, allocated, stdout, panicked,
                   cntStart, cntEmpty>>

\* main.rs:144  any other event (text, comment, declaration, ...)
ReadOther ==
    /\ pc = "reading"
    /\ nEvents < MaxEvents
    /\ event' = [type |-> "Other", name |-> <<>>]
    /\ nEvents' = nEvents + 1
    /\ UNCHANGED <<pc, path, fileExists, fileFormat, opened, accVars, stdout, panicked, histVars>>

\* main.rs:129  Event::Eof => break
ReadEof ==
    /\ pc = "reading"
    /\ event' = [type |-> "Eof", name |-> <<>>]
    /\ pc' = "report"
    /\ wellFormed' = (wellFormed /\ stack = <<>>)
    /\ stack' = <<>>
    /\ UNCHANGED <<path, fileExists, fileFormat, opened, accVars, stdout, panicked, nEvents,
                   cntStart, cntEmpty, cntEnd, otherSeen>>

\* main.rs:128  read_event_into(..) returns Err: unwrap() panics
ReadErrorBreaks ==
    /\ pc = "reading"
    /\ event' = [type |-> "Error", name |-> <<>>]
    /\ pc' = "report"
    /\ UNCHANGED <<path, fileExists, fileFormat, opened, accVars, stdout, panicked, nEvents, histVars>>

ReadError ==
    /\ pc = "reading"
    /\ event' = [type |-> "Error", name |-> <<>>]
    /\ panicked' = "read_event_into"
    /\ pc' = "aborted"
    /\ UNCHANGED <<path, fileExists, fileFormat, opened, accVars, stdout, nEvents, histVars>>

\* main.rs:148  println!("... and done! ...", info, others)
PrintSummary ==
    /\ pc = "report"
    /\ stdout' = Append(stdout, DoneLine(info, others))
    /\ pc' = "done"
    /\ UNCHANGED <<path, fileExists, fileFormat, opened, accVars, event, panicked, nEvents, histVars>>

\* main.rs:150  println!("Only files with extension ...")
PrintUnsupported ==
    /\ pc = "unsupported"
    /\ stdout' = Append(stdout, UnsupportedLine)
    /\ pc' = "done"
    /\ UNCHANGED <<path, fileExists, fileFormat, opened, accVars, event, panicked, nEvents, histVars>>

Next ==
    \/ ResolveFormat
    \/ OpenFile
    \/ ReadStart
    \/ ReadEmpty
    \/ ReadEnd
    \/ ReadOther
    \/ ReadEof
    \/ ReadError
    \/ PrintSummary
    \/ PrintUnsupported

Spec == Init /\ [][Next]_vars

----------------------------------------------------------------------------
\* Format dispatch on its own: every path built from a few pieces

\* Bound on the number of pieces a path is built from.
MaxPieces == 3

\* "map", ".osm", ".bz2", ".txt", "osm", ".OSM", ".osm.bz", "/", "\xFF", "\xC3\xA9"
PathPieces == { <<109, 97, 112>>,
                <<46, 111, 115, 109>>,
                <<46, 98, 122, 50>>,
                <<46, 116, 120, 116>>,
                <<111, 115, 109>>,
                <<46, 79, 83, 77>>,
                <<46, 111, 115, 109, 46, 98, 122>>,
                <<47>>,
                <<255>>,
                <<195, 169>> }

RECURSIVE PathsOf(_)
PathsOf(n) ==
    IF n = 0 THEN {<<>>}
    ELSE LET shorter == PathsOf(n - 1) IN
         shorter \cup {q \o piece : q \in shorter, piece \in PathPieces}

AllPaths == PathsOf(MaxPieces) \ {<<>>}

InitFormat ==
    /\ pc = "start"
    /\ path \in AllPaths
    /\ fileExists \in BOOLEAN
    /\ fileFormat = "none"
    /\ opened = FALSE
    /\ allocated = FALSE
    /\ info = <<>>
    /\ others = {}
    /\ event = NoEvent
    /\ stdout = <<>>
    /\ panicked = "none"
    /\ nEvents = 0
    /\ stack = <<>>
    /\ wellFormed = TRUE
    /\ cntStart = [k \in OsmTag |-> 0]
    /\ cntEmpty = [k \in OsmTag |-> 0]
    /\ cntEnd = [k \in OsmTag |-> 0]
    /\ otherSeen = {}

NextFormat == ResolveFormat

SpecFormat == InitFormat /\ [][NextFormat]_vars

----------------------------------------------------------------------------
\* Classification on its own: one register_tag call on every name of AllNames

RECURSIVE CaseVariants(_)
CaseVariants(lit) ==
    IF lit = <<>> THEN {<<>>}
    ELSE {<<c>> \o rest : c \in {lit[1], lit[1] - 32}, rest \in CaseVariants(Tail(lit))}

KindVariants ==
    CaseVariants(<<110, 111, 100, 101>>)
        \cup CaseVariants(<<119, 97, 121>>)
        \cup CaseVariants(<<114, 101, 108, 97, 116, 105, 111, 110>>)

\* "nÖde", "nöde", "relatıon", "foo", "Foo", "n\xFF", "\xE2\x82", "osm", "w@y", "n/de"
PlainNames == { <<110, 195, 150, 100, 101>>,
                <<110, 195, 182, 100, 101>>,
                <<114, 101, 108, 97, 116, 196, 177, 111, 110>>,
                <<102, 111, 111>>,
                <<70, 111, 111>>,
                <<110, 255>>,
                <<226, 130>>,
                <<111, 115, 109>>,
                <<119, 64, 121>>,
                <<110, 47, 100, 101>> }

\* kind names with a byte too many or too few: "nodes", "xnode", "nod", ...
NearNames ==
    {v \o <<115>> : v \in KindVariants}
        \cup {<<120>> \o v : v \in CaseVariants(<<110, 111, 100, 101>>) \cup CaseVariants(<<119, 97, 121>>)}
        \cup {SubSeq(v, 1, Len(v) - 1) : v \in KindVariants}

AllNames == KindVariants \cup PlainNames \cup NearNames

InitClassify ==
    /\ pc = "classify"
    /\ path = <<109, 97, 112, 46, 111, 115, 109>>
    /\ fileExists = TRUE
    /\ fileFormat = "XML"
    /\ opened = TRUE
    /\ allocated = TRUE
    /\ info = <<>>
    /\ others = {}
    /\ event \in {[type |-> "None", name |-> n] : n \in AllNames}
    /\ stdout = <<>>
    /\ panicked = "none"
    /\ nEvents = 0
    /\ stack = <<>>
    /\ wellFormed = TRUE
    /\ cntStart = [k \in OsmTag |-> 0]
    /\ cntEmpty = [k \in OsmTag |-> 0]
    /\ cntEnd = [k \in OsmTag |-> 0]
    /\ otherSeen = {}

\* main.rs:107-122  one call register_tag(add, tag)
Classify ==
    /\ pc = "classify"
    /\ \E add \in BOOLEAN :
        LET acc == RegisterTag(add, event.name, [info |-> info, others |-> others]) IN
        /\ event' = [type |-> IF add THEN "Start" ELSE "End", name |-> event.name]
        /\ info' = acc.info
        /\ others' = acc.others
    /\ pc' = "classified"
    /\ nEvents' = nEvents + 1
    /\ UNCHANGED <<path, fileExists, fileFormat, opened, allocated, stdout, panicked, histVars>>

NextClassify == Classify

SpecClassify == InitClassify /\ [][NextClassify]_vars

----------------------------------------------------------------------------
\* Properties

\* a kind's counters as read from the tally table; a kind without entry counts zero
Starts(inf, k) == IF k \in DOMAIN inf THEN inf[k].starts ELSE 0
Ends(inf, k) == IF k \in DOMAIN inf THEN inf[k].ends ELSE 0

\* the step reads a Start, End or Empty event
ElementStep ==
    /\ pc = "reading"
    /\ nEvents' = nEvents + 1
    /\ event'.type \in {"Start", "End", "Empty"}

\* the kinds whose tally the step touches
ChangedKinds ==
    {k \in OsmTag : \/ (k \in DOMAIN info') # (k \in DOMAIN info)
                    \/ Starts(info', k) # Starts(info, k)
                    \/ Ends(info', k) # Ends(info, k)}

SummaryCount == Cardinality({i \in DOMAIN stdout : stdout[i].text = "... and done!"})

\* C1: every Start/End/Empty event either changes the counters of exactly one
\* kind (the kind its name denotes) and leaves OtherNames as it was with the
\* name not in it, or changes no counter and has its (lossily decoded) name in
\* OtherNames; never both, never neither.
C1_ExhaustiveClassification ==
    [][ElementStep =>
        LET decoded == FromUtf8Lossy(event'.name)
            counted == /\ Cardinality(ChangedKinds) = 1
                       /\ ChangedKinds = {KindOfName(event'.name)}
                       /\ others' = others
            recorded == /\ decoded \in others'
                        /\ others' = others \cup {decoded}
        IN  /\ counted => (ChangedKinds # {} /\ decoded \notin others')
            /\ recorded => ChangedKinds = {}
            /\ counted \/ recorded
            /\ ~(counted /\ recorded)]_vars

C1_Witness ==
    /\ pc = "reading"
    /\ event = [type |-> "End", name |-> <<102, 111, 111>>]
    /\ <<102, 111, 111>> \in others
    /\ DOMAIN info = {"Node"}
    /\ nEvents = 3

\* C2: an Empty event for name N leaves the accumulators as a Start event for N
\* followed by an End event for N would: for a kind, starts and ends of that
\* kind (and nothing else) grow by one; for any other name, one set insertion.
C2_SelfClosingEquivalence ==
    [][(pc = "reading" /\ nEvents' = nEvents + 1 /\ event'.type = "Empty") =>
        LET n == event'.name
            acc0 == [info |-> info, others |-> others]
            afterStart == RegisterTag(TRUE, n, acc0)
            afterPair == RegisterTag(FALSE, n, afterStart)
            kind == KindOfName(n)
        IN  /\ info' = afterPair.info
            /\ others' = afterPair.others
            /\ IF kind # "Other"
               THEN /\ Starts(info', kind) = Starts(info, kind) + 1
                    /\ Ends(info', kind) = Ends(info, kind) + 1
                    /\ \A k \in OsmTag \ {kind} :
                          /\ (k \in DOMAIN info') = (k \in DOMAIN info)
                          /\ Starts(info', k) = Starts(info, k)
                          /\ Ends(info', k) = Ends(info, k)
                    /\ others' = others
               ELSE /\ info' = info
                    /\ others' = others \cup {FromUtf8Lossy(n)}]_vars

C2_Witness ==
    /\ event = [type |-> "Empty", name |-> <<119, 97, 121>>]
    /\ "Way" \in DOMAIN info
    /\ info["Way"] = [starts |-> 2, ends |-> 1]
    /\ stack = << <<119, 97, 121>> >>

\* C3 (as stated): every summary printed lists all three kinds, a kind never
\* observed as 0/0.
C3_AllKindsReported ==
    \A i \in DOMAIN stdout :
        stdout[i].text = "... and done!" =>
            \A k \in OsmTag :
                \E item \in stdout[i].info :
                    /\ item.tag = k
                    /\ item.starts = Starts(info, k)
                    /\ item.ends = Ends(info, k)

\* the history agrees with the accumulators
TalliesMatch ==
    /\ \A k \in OsmTag :
          /\ Starts(info, k) = cntStart[k] + cntEmpty[k]
          /\ Ends(info, k) = cntEnd[k] + cntEmpty[k]
    /\ others = {FromUtf8Lossy(n) : n \in otherSeen}

\* C4: at end of stream each kind's starts is the number of Start plus Empty
\* events of the kind, its ends the number of End plus Empty events of the kind
\* (a kind without tally entry counting as zero), OtherNames is the set of the
\* (decoded) distinct non-kind names seen; events of any other shape change
\* nothing.
C4_FinalCounts ==
    [][/\ (pc = "reading" /\ event'.type = "Other" /\ nEvents' = nEvents + 1)
            => (info' = info /\ others' = others)
       /\ (pc' \in {"report", "done"} /\ event'.type = "Eof") => TalliesMatch']_vars

\* <node/><way></way><foo/>
C4_Witness ==
    /\ pc = "done"
    /\ nEvents = 4
    /\ cntEmpty = [k \in OsmTag |-> IF k = "Node" THEN 1 ELSE 0]
    /\ cntStart = [k \in OsmTag |-> IF k = "Way" THEN 1 ELSE 0]
    /\ cntEnd = [k \in OsmTag |-> IF k = "Way" THEN 1 ELSE 0]
    /\ otherSeen = { <<102, 111, 111>> }
    /\ others = { <<102, 111, 111>> }
    /\ Starts(info, "Node") = 1 /\ Ends(info, "Node") = 1
    /\ Starts(info, "Way") = 1 /\ Ends(info, "Way") = 1
    /\ Starts(info, "Relation") = 0 /\ Ends(info, "Relation") = 0
    /\ stdout = <<DoneLine(info, others)>>

\* path = prefix \o suffix for some prefix
HasSuffix(p, suffix) == \E i \in 0..Len(p) : SubSeq(p, 1, i) \o suffix = p

C6_UnsupportedEndsCleanly ==
    fileFormat = "Err" =>
        /\ pc \in {"unsupported", "done"}
        /\ ~opened
        /\ ~allocated
        /\ info = <<>> /\ others = {}
        /\ event = NoEvent /\ nEvents = 0
        /\ panicked = "none"
        /\ SummaryCount = 0
        /\ pc = "unsupported" => stdout = <<>>
        /\ pc = "done" => stdout = <<UnsupportedLine>>

C6_Witness ==
    /\ pc = "done"
    /\ fileFormat = "Err"
    /\ ~fileExists
    /\ stdout = <<UnsupportedLine>>

\* C7: the summary is printed at most once and only after Eof; a read error
\* aborts the run at once with no summary; after Eof or an error no further
\* event is read and the accumulators stay as they are.
C7_SummaryOnlyAfterEof ==
    [][/\ SummaryCount' <= 1
       /\ SummaryCount' = 1 => (event'.type = "Eof" /\ pc' = "done")
       /\ event'.type = "Error" =>
             (pc' = "aborted" /\ panicked' = "read_event_into" /\ stdout' = <<>>)
       /\ event.type \in {"Eof", "Error"} =>
             (event' = event /\ nEvents' = nEvents /\ info' = info /\ others' = others)]_vars

C7_Witness ==
    /\ pc = "aborted"
    /\ event.type = "Error"
    /\ nEvents = 2
    /\ DOMAIN info = {"Node"}
    /\ others # {}
    /\ stdout = <<>>

\* the kinds value matches, comparing with each kind name in turn
MatchingKinds(value) ==
    {k \in OsmTag :
        EqIgnoreAsciiCase(value, CASE k = "Node" -> <<110, 111, 100, 101>>
                                   [] k = "Way" -> <<119, 97, 121>>
                                   [] k = "Relation" -> <<114, 101, 108, 97, 116, 105, 111, 110>>)}

\* C8: a name that is an ASCII upper/lower-case variant of "node", "way" or
\* "relation" is counted as that kind; every other name ("nÖde", a name with
\* extra characters) goes to OtherNames, unchanged if it is valid text; no name
\* matches two kinds.
C8_AsciiCaseClassification ==
    pc = "classified" =>
        LET n == event.name
            kind == KindOfName(n)
        IN  /\ Cardinality(MatchingKinds(n)) <= 1
            /\ kind # "Other" =>
                  /\ DOMAIN info = {kind}
                  /\ Starts(info, kind) + Ends(info, kind) = 1
                  /\ others = {}
            /\ kind = "Other" =>
                  /\ info = <<>>
                  /\ others = {FromUtf8Lossy(n)}
                  /\ IsUtf8(n) => others = {n}
            /\ n \in {<<78, 111, 100, 101>>, <<78, 79, 68, 69>>, <<110, 111, 100, 101>>}
                  => DOMAIN info = {"Node"}
            /\ n = <<110, 195, 150, 100, 101>> => (info = <<>> /\ others = {n})

C8_Witness ==
    /\ pc = "classified"
    /\ event = [type |-> "Start", name |-> <<78, 79, 68, 69>>]
    /\ info = ("Node" :> [starts |-> 1, ends |-> 0])
    /\ others = {}

\* C9: no counter ever decreases, no tally entry and no other name is ever
\* removed, the table has at most three entries, an entry exists only for a kind
\* of which an event was seen, and a new entry holds exactly the increments of
\* the event that created it.
C9_AppendOnly ==
    [][/\ \A k \in DOMAIN info :
             /\ k \in DOMAIN info'
             /\ info'[k].starts >= info[k].starts
             /\ info'[k].ends >= info[k].ends
       /\ others \subseteq others'
       /\ DOMAIN info' \subseteq OsmTag
       /\ Cardinality(DOMAIN info') <= 3
       /\ \A k \in DOMAIN info' : cntStart'[k] + cntEmpty'[k] + cntEnd'[k] > 0
       /\ \A k \in DOMAIN info' \ DOMAIN info :
             /\ KindOfName(event'.name) = k
             /\ info'[k] = [starts |-> IF event'.type \in {"Start", "Empty"} THEN 1 ELSE 0,
                            ends   |-> IF event'.type \in {"End", "Empty"} THEN 1 ELSE 0]]_vars

C9_Witness ==
    /\ pc = "reading"
    /\ DOMAIN info = OsmTag
    /\ info["Node"] = [starts |-> 2, ends |-> 0]
    /\ info["Relation"] = [starts |-> 0, ends |-> 1]
    /\ event.type = "Empty"

\* number of open elements of kind k
RECURSIVE OpenCount(_, _)
OpenCount(st, k) ==
    IF st = <<>> THEN 0
    ELSE (IF KindOfName(Head(st)) = k THEN 1 ELSE 0) + OpenCount(Tail(st), k)

\* C10: while the events delivered are properly nested, starts - ends of each
\* kind is the number of open elements of that kind (so starts >= ends), and
\* after Eof of a well-formed sequence starts = ends for each kind.
C10_Balance ==
    wellFormed =>
        /\ \A k \in OsmTag :
              /\ Starts(info, k) >= Ends(info, k)
              /\ Starts(info, k) - Ends(info, k) = OpenCount(stack, k)
        /\ event.type = "Eof" => \A k \in OsmTag : Starts(info, k) = Ends(info, k)

C10_Witness ==
    /\ wellFormed
    /\ event.type = "Eof"
    /\ pc = "done"
    /\ nEvents = 4
    /\ Starts(info, "Node") = 2 /\ Ends(info, "Node") = 2
    /\ cntStart["Node"] = 2

====
